---- MODULE Spec2Model ----
(***************************************************************************)
(* The "Active Blood Requests" page (ViewRequestsPage): a live Firestore   *)
(* query feeds an in-memory list of BloodRequest records, two filter       *)
(* controls narrow it, and a memoised filter/sort pipeline produces the    *)
(* list that is rendered.                                                  *)
(*                                                                         *)
(* Strings that the code inspects character by character (location and     *)
(* the location filter) are sequences of one-character strings.            *)
(***************************************************************************)
EXTENDS Integers, Sequences, FiniteSets

VARIABLES
    requests,          \* useState<BloodRequest[]>([])
    loading,           \* useState(true)
    bloodGroupFilter,  \* useState<BloodGroup | "all">("all")
    locationFilter,    \* useState("")
    mounted,           \* the component instance (the effect's scope) is alive
    listeners,         \* number of onSnapshot listeners active on the transport
    unsubscribeCalls,  \* calls made to the unsubscribe handle of the latest effect run
    lastSnapshot,      \* the QuerySnapshots handed to the snapshot callback by the
                       \* current listener: << >>, or <<the most recent one>>
    lastEvent          \* which handler ran last

vars == <<requests, loading, bloodGroupFilter, locationFilter, mounted,
          listeners, unsubscribeCalls, lastSnapshot, lastEvent>>

-----------------------------------------------------------------------------
(* Bounds of the model *)

\* longest snapshot the transport delivers in Spec
MaxLen == 2
\* longest snapshot held by the page in EngineSpec
EngineMaxLen == 3
\* longest snapshot held by the page in SortSpec
SortMaxLen == 4

-----------------------------------------------------------------------------
(* Types (src/components/layout/Header.tsx carries the shared type file) *)

bloodGroups == {"A+", "A-", "B+", "B-", "AB+", "AB-", "O+", "O-"}

\* the value of a field that the stored document does not carry
Undefined == "undefined"

\* const urgencyOrder = { Urgent: 1, Moderate: 2, Low: 3 }
urgencyOrder == [Urgent |-> 1, Moderate |-> 2, Low |-> 3]

\* urgencyOrder[u]: a property lookup, undefined for any other key.  The
\* result is the set holding the number, or the empty set for undefined.
urgencyRank(u) == IF u \in DOMAIN urgencyOrder THEN {urgencyOrder[u]} ELSE {}

\* the JavaScript relational operators on number | undefined: any comparison
\* with undefined is false
jsLess(X, Y) == \E x \in X, y \in Y : x < y
jsGreater(X, Y) == \E x \in X, y \in Y : x > y

-----------------------------------------------------------------------------
(* Strings *)

lowerChar(c) ==
    CASE c = "D" -> "d"
      [] c = "H" -> "h"
      [] c = "C" -> "c"
      [] OTHER -> c

\* String.prototype.toLowerCase
toLowerCase(s) == [i \in 1..Len(s) |-> lowerChar(s[i])]

\* String.prototype.includes
includes(s, t) ==
    \E i \in 0..(Len(s) - Len(t)) : SubSeq(s, i + 1, i + Len(t)) = t

-----------------------------------------------------------------------------
(* Documents the transport delivers.  The query is                         *)
(*   where("status", "==", "active"), orderBy("createdAt", "desc")         *)
(* so every delivered document is active, carries createdAt, and a         *)
(* snapshot lists its documents newest first.  Document ids are opaque and *)
(* unique within a snapshot; a document is named by its place in the       *)
(* snapshot that delivers it.                                              *)

Times == {1, 2}
Dh == <<"D", "h">>
Ch == <<"c", "h">>

newestFirst(s) == \A i \in 1..Len(s) - 1 : s[i].createdAt >= s[i + 1].createdAt

SeqsUpTo(D, n) == UNION {[1..k -> D] : k \in 0..n}

\* a snapshot over the document payloads D: at most n documents, newest first
QuerySnapshots(D, n) ==
    {[i \in 1..Len(s) |-> [id |-> i, data |-> s[i]]] :
        s \in {t \in SeqsUpTo(D, n) : newestFirst(t)}}

\* payloads the transport delivers in Spec
FeedData ==
    [bloodGroup : {"A+", "O-"}, location : {Dh},
     urgency : {"Urgent", "Low"}, createdAt : Times]

\* payloads of the snapshots held in SortSpec: every urgency, and a document
\* without one, at every time
SortData ==
    [bloodGroup : {"A+"}, location : {Dh},
     urgency : {"Urgent", "Moderate", "Low", Undefined}, createdAt : Times]

\* payloads of the snapshots held in EngineSpec: those of SortSpec, and every
\* blood group at every location
EngineData ==
    SortData \cup
    [bloodGroup : {"A+", "O-"}, location : {Dh, Ch},
     urgency : {"Urgent"}, createdAt : {1}]

FeedSnapshots == QuerySnapshots(FeedData, MaxLen)
EngineSnapshots == QuerySnapshots(EngineData, EngineMaxLen)
SortSnapshots == QuerySnapshots(SortData, SortMaxLen)

\* values the two filter controls are set to
BloodGroupChoices == {"all", "A+", "O-", "B+"}
LocationInputs == {<< >>, <<"d", "H">>, <<"h">>}

\* nothing delivered yet on the current listener
NoSnapshot == << >>

-----------------------------------------------------------------------------
(* Snapshot callback: document -> BloodRequest *)

\* { id: doc.id, ...doc.data(), createdAt: doc.data().createdAt as Timestamp }
toBloodRequest(doc) ==
    [id |-> doc.id,
     bloodGroup |-> doc.data.bloodGroup,
     location |-> doc.data.location,
     urgency |-> doc.data.urgency,
     createdAt |-> doc.data.createdAt]

\* querySnapshot.forEach(doc => fetchedRequests.push(...))
fetchedRequests(querySnapshot) ==
    [i \in 1..Len(querySnapshot) |-> toBloodRequest(querySnapshot[i])]

-----------------------------------------------------------------------------
(* Filter/sort pipeline (the useMemo of filteredRequests) *)

\* req => bloodGroupFilter === "all" || req.bloodGroup === bloodGroupFilter
matchesBloodGroup(req, g) == g = "all" \/ req.bloodGroup = g

\* variant: the comparison made without lowering either side
matchesLocationCaseSensitive(req, l) ==
    l = << >> \/ includes(req.location, l)

\* req => locationFilter === "" ||
\*        req.location.toLowerCase().includes(locationFilter.toLowerCase())
matchesLocation(req, l) ==
    l = << >> \/ includes(toLowerCase(req.location), toLowerCase(l))

\* requests.filter(...).filter(...): two fresh arrays, order kept
retained(reqs, g, l) ==
    LET byGroup(req) == matchesBloodGroup(req, g)
        byLocation(req) == matchesLocation(req, l)
    IN  SelectSeq(SelectSeq(reqs, byGroup), byLocation)

\* variant: the recency tie-break taken the other way round
compareOldestFirst(a, b) ==
    IF jsLess(urgencyRank(a.urgency), urgencyRank(b.urgency)) THEN -1
    ELSE IF jsGreater(urgencyRank(a.urgency), urgencyRank(b.urgency)) THEN 1
    ELSE a.createdAt - b.createdAt

\* the comparator handed to sort
compare(a, b) ==
    IF jsLess(urgencyRank(a.urgency), urgencyRank(b.urgency)) THEN -1
    ELSE IF jsGreater(urgencyRank(a.urgency), urgencyRank(b.urgency)) THEN 1
    ELSE b.createdAt - a.createdAt

\* ECMAScript: comparefn is a consistent comparator for the values S
consistentComparator(S) ==
    \A a \in S :
        /\ compare(a, a) = 0
        /\ \A b \in S :
              LET ab == compare(a, b)
              IN  /\ ab = 0 => compare(b, a) = 0
                  /\ \A c \in S :
                        LET bc == compare(b, c)
                            ac == compare(a, c)
                        IN  /\ (ab = 0 /\ bc = 0) => ac = 0
                            /\ (ab < 0 /\ bc < 0) => ac < 0
                            /\ (ab > 0 /\ bc > 0) => ac > 0

Range(s) == {s[i] : i \in 1..Len(s)}

\* x placed behind every element it does not sort before
insertStable(sorted, x) ==
    LET k == Cardinality({i \in 1..Len(sorted) : compare(x, sorted[i]) >= 0})
    IN  SubSeq(sorted, 1, k) \o <<x>> \o SubSeq(sorted, k + 1, Len(sorted))

RECURSIVE stableSort(_)
\* the one order a stable sort gives under a consistent comparator
stableSort(s) ==
    IF s = << >> THEN << >>
    ELSE insertStable(stableSort(SubSeq(s, 1, Len(s) - 1)), s[Len(s)])

RECURSIVE orderings(_)
\* every way of listing the members of I once each
orderings(I) ==
    IF I = {} THEN {<< >>}
    ELSE UNION {{<<i>> \o p : p \in orderings(I \ {i})} : i \in I}

\* every arrangement of the elements of s
arrangements(s) == {[k \in 1..Len(s) |-> s[p[k]]] : p \in orderings(1..Len(s))}

\* Array.prototype.sort(comparefn): stable; when comparefn is not a consistent
\* comparator for the elements the order is implementation-defined, and any
\* arrangement of the elements can come back.  Never throws with this comparefn.
sort(s) ==
    IF consistentComparator(Range(s)) THEN {stableSort(s)} ELSE arrangements(s)

\* the lists the memo can hold for (requests, bloodGroupFilter, locationFilter)
filteredRequestsOf(reqs, g, l) == sort(retained(reqs, g, l))

\* variant: requests.sort(...) without the filters in front sorts the state
\* array itself
requestsSortedInPlace(reqs, g, l) == CHOOSE list \in sort(reqs) : TRUE

\* the sort works on the array filter returned: the requests state array
\* comes out of the computation as it went in
requestsAfterRender(reqs, g, l) == reqs

\* variant: the length test off by one
shownNeverEmpty(isLoading, list) ==
    IF isLoading THEN "skeleton"
    ELSE IF Len(list) >= 0 THEN "cards"
    ELSE "no matches"

\* loading ? skeleton : filteredRequests.length > 0 ? cards : "no matches"
shown(isLoading, list) ==
    IF isLoading THEN "skeleton"
    ELSE IF Len(list) > 0 THEN "cards"
    ELSE "no matches"

-----------------------------------------------------------------------------
(* The page as a state machine *)

\* the lists the memo can hold in the current state
filteredRequests == filteredRequestsOf(requests, bloodGroupFilter, locationFilter)

\* what the current state renders, per list the memo can hold
presentations == {shown(loading, list) : list \in filteredRequests}

\* State after construction: the first render with the four useState initial
\* values, then the effect, whose onSnapshot(q, ...) registers one listener.
Init ==
    /\ requests = requestsAfterRender(<< >>, "all", << >>)
    /\ loading = TRUE
    /\ bloodGroupFilter = "all"
    /\ locationFilter = << >>
    /\ mounted = TRUE
    /\ listeners = 1
    /\ unsubscribeCalls = 0
    /\ lastSnapshot = NoSnapshot
    /\ lastEvent = "mount"

\* the page is navigated to again: a fresh instance with fresh state, whose
\* effect registers a new listener and gets a new unsubscribe handle
Mount ==
    /\ ~mounted
    /\ requests' = requestsAfterRender(<< >>, "all", << >>)
    /\ loading' = TRUE
    /\ bloodGroupFilter' = "all"
    /\ locationFilter' = << >>
    /\ mounted' = TRUE
    /\ listeners' = listeners + 1
    /\ unsubscribeCalls' = 0
    /\ lastSnapshot' = NoSnapshot
    /\ lastEvent' = "mount"

\* the function onSnapshot returned: detaches the listener, once
unsubscribe ==
    /\ listeners' = IF unsubscribeCalls = 0 THEN listeners - 1 ELSE listeners
    /\ unsubscribeCalls' = unsubscribeCalls + 1

\* variant: an effect that returns no cleanup
UnmountWithoutCleanup ==
    /\ mounted
    /\ mounted' = FALSE
    /\ lastEvent' = "unmount"
    /\ UNCHANGED <<requests, loading, bloodGroupFilter, locationFilter, lastSnapshot,
                   listeners, unsubscribeCalls>>

\* the effect's cleanup, return () => unsubscribe(), run when the instance goes
Unmount ==
    /\ mounted
    /\ unsubscribe
    /\ mounted' = FALSE
    /\ lastEvent' = "unmount"
    /\ UNCHANGED <<requests, loading, bloodGroupFilter, locationFilter, lastSnapshot>>

\* the snapshot callback, and the render that follows it
onSnapshotNext(querySnapshot) ==
    /\ mounted /\ listeners > 0
    /\ requests' = requestsAfterRender(fetchedRequests(querySnapshot),
                                       bloodGroupFilter, locationFilter)
    /\ loading' = FALSE
    /\ lastSnapshot' = <<querySnapshot>>
    /\ lastEvent' = "snapshot"
    /\ UNCHANGED <<bloodGroupFilter, locationFilter, mounted, listeners, unsubscribeCalls>>

\* variant: an error callback that only logs
onSnapshotErrorOnlyLogs ==
    /\ mounted /\ listeners > 0
    /\ requests' = requestsAfterRender(requests, bloodGroupFilter, locationFilter)
    /\ lastEvent' = "error"
    /\ UNCHANGED <<loading, bloodGroupFilter, locationFilter, mounted, listeners,
                   unsubscribeCalls, lastSnapshot>>

\* variant: an error callback that also empties the list
onSnapshotErrorClears ==
    /\ mounted /\ listeners > 0
    /\ loading' = FALSE
    /\ requests' = requestsAfterRender(<< >>, bloodGroupFilter, locationFilter)
    /\ lastEvent' = "error"
    /\ UNCHANGED <<bloodGroupFilter, locationFilter, mounted, listeners,
                   unsubscribeCalls, lastSnapshot>>

\* the error callback (console.error, setLoading(false)), and the render
onSnapshotError ==
    /\ mounted /\ listeners > 0
    /\ loading' = FALSE
    /\ requests' = requestsAfterRender(requests, bloodGroupFilter, locationFilter)
    /\ lastEvent' = "error"
    /\ UNCHANGED <<bloodGroupFilter, locationFilter, mounted, listeners,
                   unsubscribeCalls, lastSnapshot>>

\* onValueChange of the blood-group Select
setBloodGroupFilter(value) ==
    /\ mounted
    /\ bloodGroupFilter' = value
    /\ requests' = requestsAfterRender(requests, value, locationFilter)
    /\ lastEvent' = "setBloodGroupFilter"
    /\ UNCHANGED <<loading, locationFilter, mounted, listeners, unsubscribeCalls,
                   lastSnapshot>>

\* onChange of the location Input
setLocationFilter(value) ==
    /\ mounted
    /\ locationFilter' = value
    /\ requests' = requestsAfterRender(requests, bloodGroupFilter, value)
    /\ lastEvent' = "setLocationFilter"
    /\ UNCHANGED <<loading, bloodGroupFilter, mounted, listeners, unsubscribeCalls,
                   lastSnapshot>>

\* variant: a reset that forgets the location text
resetFiltersKeepsLocation ==
    /\ mounted
    /\ bloodGroupFilter' = "all"
    /\ requests' = requestsAfterRender(requests, "all", locationFilter)
    /\ lastEvent' = "resetFilters"
    /\ UNCHANGED <<loading, locationFilter, mounted, listeners, unsubscribeCalls,
                   lastSnapshot>>

\* setBloodGroupFilter("all"); setLocationFilter(""), and the render
resetFilters ==
    /\ mounted
    /\ bloodGroupFilter' = "all"
    /\ locationFilter' = << >>
    /\ requests' = requestsAfterRender(requests, "all", << >>)
    /\ lastEvent' = "resetFilters"
    /\ UNCHANGED <<loading, mounted, listeners, unsubscribeCalls, lastSnapshot>>

Snapshot == \E querySnapshot \in FeedSnapshots : onSnapshotNext(querySnapshot)
SelectBloodGroup == \E value \in BloodGroupChoices : setBloodGroupFilter(value)
TypeLocation == \E value \in LocationInputs : setLocationFilter(value)

Next ==
    \/ Mount
    \/ Unmount
    \/ Snapshot
    \/ onSnapshotError
    \/ SelectBloodGroup
    \/ TypeLocation
    \/ resetFilters

Spec == Init /\ [][Next]_vars

\* the page right after the snapshot callback delivered querySnapshot
holding(querySnapshot) ==
    /\ requests = requestsAfterRender(fetchedRequests(querySnapshot), "all", << >>)
    /\ loading = FALSE
    /\ bloodGroupFilter = "all"
    /\ locationFilter = << >>
    /\ mounted = TRUE
    /\ listeners = 1
    /\ unsubscribeCalls = 0
    /\ lastSnapshot = <<querySnapshot>>
    /\ lastEvent = "snapshot"

\* The page holding any snapshot of EngineSnapshots; the filter controls are
\* then operated.
InitEngine == \E querySnapshot \in EngineSnapshots : holding(querySnapshot)

\* The same with the snapshots of SortSnapshots.
InitSort == \E querySnapshot \in SortSnapshots : holding(querySnapshot)

NextEngine ==
    \/ SelectBloodGroup
    \/ TypeLocation
    \/ resetFilters

EngineSpec == InitEngine /\ [][NextEngine]_vars

SortSpec == InitSort /\ [][NextEngine]_vars

-----------------------------------------------------------------------------
(* Properties *)

\* place of the record with document id d in list (0 when it is not there)
placeOf(d, list) ==
    IF \E i \in 1..Len(list) : list[i].id = d
    THEN CHOOSE i \in 1..Len(list) : list[i].id = d
    ELSE 0

\* C1's predicate: the record passes the two filter values of the state
passesFilters(r) ==
    /\ (bloodGroupFilter = "all" \/ r.bloodGroup = bloodGroupFilter)
    /\ (locationFilter = << >>
          \/ \E i, j \in 0..Len(r.location) :
                SubSeq(toLowerCase(r.location), i + 1, j) = toLowerCase(locationFilter))

\* C1: the filtered list holds exactly the records of the current list that
\* pass the blood-group filter (or it is "all") and the case-insensitive
\* location filter (or it is empty): every one of them once, and nothing else.
C1_FilteredExactly ==
    LET passing == {r \in Range(requests) : passesFilters(r)}
    IN  /\ {Range(list) : list \in filteredRequests} = {passing}
        /\ {Len(list) : list \in filteredRequests} = {Cardinality(passing)}

\* C1 witness: both filters set; one record passes, one fails on the blood
\* group alone and one on the location alone (its case differing from the filter's)
C1_Witness ==
    /\ bloodGroupFilter = "A+"
    /\ locationFilter = <<"d", "H">>
    /\ \E list \in filteredRequests : Len(list) > 0 /\ Len(list) < Len(requests)
    /\ \E r \in Range(requests) : r.bloodGroup = "O-" /\ r.location = Dh
    /\ \E r \in Range(requests) : r.bloodGroup = "A+" /\ r.location = Ch

allUrgenciesKnown == \A r \in Range(requests) : r.urgency \in DOMAIN urgencyOrder

\* C2: when every record of the list carries an urgency of Urgent, Moderate or
\* Low, a record placed before another has the lower rank (Urgent 1, Moderate 2,
\* Low 3), or the same rank and a creation time that is not older.
C2_SortedByUrgencyThenRecency ==
    allUrgenciesKnown =>
        \A list \in filteredRequests :
            \A i, j \in 1..Len(list) :
                i < j =>
                    \/ urgencyOrder[list[i].urgency] < urgencyOrder[list[j].urgency]
                    \/ /\ urgencyOrder[list[i].urgency] = urgencyOrder[list[j].urgency]
                       /\ list[i].createdAt >= list[j].createdAt

\* C2 witness: an older Urgent record sorted in front of a newer Moderate and
\* a newer Low one that the snapshot delivered before it
C2_Witness ==
    /\ allUrgenciesKnown
    /\ \E list \in filteredRequests :
          \E i, j, k \in 1..Len(list) :
              /\ i < j /\ j < k
              /\ list[i].urgency = "Urgent" /\ list[j].urgency = "Moderate"
              /\ list[k].urgency = "Low"
              /\ list[i].createdAt < list[j].createdAt
              /\ list[i].id > list[j].id /\ list[i].id > list[k].id

unknownUrgencyRetained ==
    \E r \in Range(retained(requests, bloodGroupFilter, locationFilter)) :
        urgencyRank(r.urgency) = {}

\* C4: when a record that reaches the sort has a missing or unknown urgency,
\* the sort fails: no ordered list comes out of it.
C4_UnknownUrgencyFailsSort ==
    unknownUrgencyRetained => filteredRequests = {}

C3_LoadingFalseForever ==
    /\ [](lastEvent = "mount" => loading)
    /\ [](lastEvent \in {"snapshot", "error"} => ~loading)
    /\ [][(loading /\ ~loading') => lastEvent' \in {"snapshot", "error"}]_vars
    /\ [][(~loading /\ lastEvent' # "mount") => ~loading']_vars

\* C3 witness: a reset of the filters after an error callback that came after
\* a snapshot: loading is still false
C3_Witness ==
    /\ ~loading
    /\ lastEvent = "resetFilters"
    /\ lastSnapshot # NoSnapshot

\* C5: an error callback that runs after a snapshot was delivered leaves
\* loading false, the record list as it was, and both filter values as they were.
C5_ErrorKeepsSnapshot ==
    [][(lastEvent' = "error" /\ lastSnapshot # NoSnapshot) =>
          /\ ~loading'
          /\ requests' = requests
          /\ bloodGroupFilter' = bloodGroupFilter
          /\ locationFilter' = locationFilter]_vars

\* C5 witness: the error callback ran last, and the list still holds the
\* records of the snapshot delivered before it
C5_Witness ==
    /\ lastEvent = "error"
    /\ lastSnapshot # NoSnapshot
    /\ Len(requests) = MaxLen
    /\ ~loading
    /\ bloodGroupFilter # "all"

\* C6: the listener an effect run opened is detached by exactly one
\* unsubscribe call, made when its instance is torn down: a live instance has
\* exactly one listener and no unsubscribe call yet, a torn-down one has no
\* listener and exactly one call, so there are never two listeners.
C6_OneSubscription ==
    /\ listeners \in {0, 1}
    /\ mounted => (listeners = 1 /\ unsubscribeCalls = 0)
    /\ ~mounted => (listeners = 0 /\ unsubscribeCalls = 1)

\* C6 witness: an instance that received a snapshot was torn down
C6_Witness ==
    /\ ~mounted
    /\ lastEvent = "unmount"
    /\ lastSnapshot # NoSnapshot
    /\ listeners = 0

filtersAtDefault == bloodGroupFilter = "all" /\ locationFilter = << >>

\* C8: resetFilters sets the blood-group filter to "all" and the location
\* filter to the empty string and changes neither the record list nor loading;
\* with both filters at these defaults the filtered list holds every record of
\* the list, once, and nothing else.
C8_ResetRestoresUnfiltered ==
    /\ [][lastEvent' = "resetFilters" =>
              /\ bloodGroupFilter' = "all"
              /\ locationFilter' = << >>
              /\ requests' = requests
              /\ loading' = loading]_vars
    /\ [](filtersAtDefault =>
              \A list \in filteredRequests :
                  /\ Range(list) = Range(requests)
                  /\ Len(list) = Len(requests))

\* C8 witness: the reset ran last on a page that holds a full snapshot, all of
\* it shown
C8_Witness ==
    /\ lastEvent = "resetFilters"
    /\ filtersAtDefault
    /\ Len(requests) = MaxLen
    /\ \E list \in filteredRequests : Len(list) = MaxLen

\* C9: the skeleton is shown iff loading; the cards iff not loading and the
\* filtered list is not empty; "no matches" iff not loading and the filtered
\* list is empty.  After an empty snapshot, loading is false, the filtered list
\* is empty and "no matches" is shown.
C9_OnePresentation ==
    \A list \in filteredRequests :
        LET p == shown(loading, list)
        IN  /\ p \in {"skeleton", "cards", "no matches"}
            /\ p = "skeleton" <=> loading
            /\ p = "cards" <=> (~loading /\ Len(list) > 0)
            /\ p = "no matches" <=> (~loading /\ Len(list) = 0)
            /\ lastSnapshot = << << >> >> =>
                  (~loading /\ list = << >> /\ p = "no matches")

\* C9 witness: an empty snapshot arrived after a non-default filter was chosen
C9_Witness ==
    /\ lastSnapshot = << << >> >>
    /\ lastEvent = "snapshot"
    /\ bloodGroupFilter # "all"
    /\ presentations = {"no matches"}

\* C10: the record list is the most recently delivered snapshot, document for
\* document and in its order (empty when nothing was delivered), whatever
\* handlers and renders ran since.
C10_ListIsLastSnapshot ==
    IF lastSnapshot = NoSnapshot THEN requests = << >>
    ELSE LET snap == lastSnapshot[1]
         IN  /\ Len(requests) = Len(snap)
             /\ \A i \in 1..Len(snap) :
                   /\ requests[i].id = snap[i].id
                   /\ requests[i].bloodGroup = snap[i].data.bloodGroup
                   /\ requests[i].location = snap[i].data.location
                   /\ requests[i].urgency = snap[i].data.urgency
                   /\ requests[i].createdAt = snap[i].data.createdAt

\* C10 witness: a snapshot that the sort reorders was delivered, then a filter
\* was changed: the list is still in the delivered order
C10_Witness ==
    /\ lastSnapshot # NoSnapshot
    /\ lastEvent = "setLocationFilter"
    /\ Len(requests) = MaxLen
    /\ requests[1].urgency = "Low"
    /\ requests[MaxLen].urgency = "Urgent"
    /\ \E list \in filteredRequests : Len(list) = MaxLen /\ list # requests

====
